---- MODULE Spec2Model ----
(***************************************************************************)
(* A model of the ollama-llm-benchmarks suite: the streaming client        *)
(* (llm_client.py), the resource monitor (resource_monitor.py), the        *)
(* report generator (report_generator.py), the orchestrating loop          *)
(* (benchmark_runner.py) and the peak-resource analyzer                    *)
(* (report_analyzer.py).                                                   *)
(*                                                                         *)
(* Representation.                                                         *)
(*  - A Python dict is a function over the strings that are its keys; a    *)
(*    key that is absent from the dict is absent from the DOMAIN.          *)
(*  - An optional value is a sequence of length at most one: None is <<>>  *)
(*    and a present value x is <<x>>.                                      *)
(*  - A call ends either by returning (raised = "none", ret holds the      *)
(*    value) or by raising (raised names the exception class).             *)
(*  - perf_counter() readings are integers counting clock ticks, with      *)
(*    TicksPerUnit ticks in 0.0001 s.  A duration rounded to 4 places is   *)
(*    an integer counting 0.0001 s; a rate rounded to 2 places is an       *)
(*    integer counting 0.01 tokens/s; a summary mean rounded to 4 places   *)
(*    is an integer counting 0.0001 of the field's unit.                   *)
(*  - round(x, n) rounds the double x, not the quotient x stands for: off  *)
(*    a decimal tie the two agree; on a tie the result is decided by the   *)
(*    side on which the double lies, which is an input of the call.        *)
(***************************************************************************)
EXTENDS Integers, Sequences, FiniteSets, TLC

VARIABLES
    pc,                 \* position of run_benchmark, or "api" outside a session
    config,             \* the loaded configuration (models_to_test, iterations)
    model_i,            \* index of the current model in config.models_to_test
    iteration,          \* the loop variable i of run_benchmark
    wall,               \* the host's time.time() reading
    ollama_process,     \* ResourceMonitor.ollama_process: None or <<pid>>
    resource_snapshots, \* run_benchmark's local list of the current iteration
    llm_metrics,        \* run_benchmark's local llm_metrics: None or <<dict>>
    results,            \* ReportGenerator.results: model name -> list of runs
    final_report,       \* what finalize_report wrote: None or <<report>>
    call,               \* the last call made and the inputs it was given
    ret,                \* what the last call returned: None or <<value>>
    raised,             \* the exception the last call raised, or "none"
    calls               \* how many calls have been made (bounded)

vars == <<pc, config, model_i, iteration, wall, ollama_process,
          resource_snapshots, llm_metrics, results, final_report,
          call, ret, raised, calls>>

----------------------------------------------------------------------------
(* Python values *)

None == <<>>
Some(x) == <<x>>
IsNone(o) == o = <<>>
The(o) == o[1]

EmptyDict == [k \in {} |-> 0]
HasKey(d, k) == k \in DOMAIN d
Get(d, k, default) == IF k \in DOMAIN d THEN d[k] ELSE default
Put(d, k, v) == (k :> v) @@ d

SeqsUpTo(S, n) == UNION {[1..k -> S] : k \in 0..n}

MaxOf(a, b) == IF b > a THEN b ELSE a

\* The sign of (the double the code holds) - (the exact quotient it stands
\* for): the double lies below the quotient, is the quotient, or lies above.
FloatErrs == {-1, 0, 1}

\* num / den lies halfway between two multiples of the last place kept.
IsTie(num, den) == 2 * (num % den) = den

\* round(x, n), counted in the last place kept, of the double x that stands
\* for num / den (in that unit) and lies on the side err of it.  Python
\* rounds the exact value of the double to the nearest, ties to even: a
\* double off the tie goes to its own side, a double that is the tie goes to
\* the even neighbour.
round(num, den, err) ==
    LET q == num \div den
        r == num % den
    IN  IF 2 * r < den THEN q
        ELSE IF 2 * r > den THEN q + 1
        ELSE IF err > 0 THEN q + 1
        ELSE IF err < 0 THEN q
        ELSE IF q % 2 = 0 THEN q ELSE q + 1

\* The sides on which the double of num / den can lie, where the side
\* reaches the result.  Off a tie it does not, and 0 stands for any side.
\* On a tie (2q+1) / (2 * 10^n) the double can be the tie itself only if
\* 5^n (pow5) divides 2q+1: no other tie is a binary fraction.
TieErrs(num, den, pow5) ==
    IF ~IsTie(num, den) THEN {0}
    ELSE IF (2 * (num \div den) + 1) % pow5 = 0 THEN FloatErrs
    ELSE FloatErrs \ {0}

----------------------------------------------------------------------------
(* Bounds of the model *)

MaxChunks == 2       \* longest response stream
MaxTokens == 2       \* largest eval_count a final chunk reports
MaxCalls == 3        \* calls made on one monitor or one report generator
MaxIterations == 2   \* largest iterations count of a configuration
MaxRuns == 2         \* most runs of one model in an analyzed report
MaxSnaps == 2        \* most snapshots of one run in an analyzed report

----------------------------------------------------------------------------
(* llm_client.py: OllamaClient.generate_response *)

\* Clock ticks in 0.0001 s: the resolution at which perf_counter() is modelled.
TicksPerUnit == 5
TicksPerSecond == TicksPerUnit * 10000

\* round(seconds, 4) of a duration given in ticks, counted in 0.0001 s.
\* TicksPerUnit is odd: no duration is a tie, and no side reaches the result.
Round4Duration(ticks) == round(ticks, TicksPerUnit, 0)

\* round(tokens / seconds, 2), counted in 0.01 tokens/s; err is the side of
\* the double tokens_generated / total_latency.
Round2Rate(tokens, ticks, err) == round(tokens * 100 * TicksPerSecond, ticks, err)

Prompt == "test_prompt"

\* The chunks the server can send: text fragments, a final chunk carrying
\* eval_count, and a final chunk carrying no eval_count.
Chunks ==
    {[response |-> "a"], [response |-> "b", done |-> FALSE], [done |-> TRUE]}
    \cup {[response |-> "", done |-> TRUE, eval_count |-> n] : n \in 0..MaxTokens}

Streams == SeqsUpTo(Chunks, MaxChunks)

\* perf_counter() readings at the start of a request, in ticks.
PerfStarts == {7, 100003}
\* Ticks that pass between two perf_counter() readings: nothing, 40 us,
\* 0.32 ms, 2.56 ms (at which one token, or two over twice the time, make a
\* rate of 390.625 tokens/s) and one second.
Delays == {0, 2, 16, 128, 50000}

\* not x, for x None or a float
Falsy(o) == IsNone(o) \/ o = Some(0)

\* The for loop of lines 39-48 from chunk i on; st holds the loop's locals.
RECURSIVE StreamLoop(_, _, _, _)
StreamLoop(response_stream, i, t_chunk, st) ==
    IF i > Len(response_stream) THEN st
    ELSE LET chunk == response_stream[i]
             next == [first_token_time |->
                          IF Falsy(st.first_token_time) THEN Some(t_chunk)
                          ELSE st.first_token_time,
                      full_response |-> st.full_response \o Get(chunk, "response", ""),
                      final_chunk |-> chunk]
         IN  IF Get(chunk, "done", FALSE) THEN next
             ELSE StreamLoop(response_stream, i + 1, t_chunk, next)

\* A variant that falls back to the token count when no time has passed.
TokensPerSecondFallingBack(tokens_generated, total_latency, err) ==
    IF total_latency > 0
    THEN Round2Rate(tokens_generated, total_latency, err)
    ELSE tokens_generated * 100

\* round(tokens_generated / total_latency if tokens_generated and
\* total_latency > 0 else 0, 2)
TokensPerSecond(tokens_generated, total_latency, err) ==
    IF tokens_generated # 0 /\ total_latency > 0
    THEN Round2Rate(tokens_generated, total_latency, err)
    ELSE 0

\* generate_response with the stream the server sends, the three
\* perf_counter() readings (before the request, at a chunk's arrival, and
\* after the stream ends) and the side of the double tokens_per_second.
generate_response(prompt, response_stream, start_time, t_chunk, end_time, rate_err) ==
    LET st == StreamLoop(response_stream, 1, t_chunk,
                         [first_token_time |-> None,
                          full_response |-> "",
                          final_chunk |-> EmptyDict])
        total_latency == end_time - start_time
        time_to_first_token ==
            IF ~Falsy(st.first_token_time)
            THEN Some(The(st.first_token_time) - start_time)
            ELSE None
        tokens_generated == Get(st.final_chunk, "eval_count", 0)
    IN  IF IsNone(time_to_first_token)
        THEN \* round(None, 4)
             [raised |-> "TypeError", ret |-> None]
        ELSE [raised |-> "none",
              ret |-> Some(
                [prompt |-> prompt,
                 response_text |-> st.full_response,
                 time_to_first_token_s |-> Round4Duration(The(time_to_first_token)),
                 total_latency_s |-> Round4Duration(total_latency),
                 tokens_generated |-> tokens_generated,
                 tokens_per_second |-> TokensPerSecond(tokens_generated, total_latency,
                                                      rate_err),
                 ollama_metadata |-> st.final_chunk])]

\* The sides the double tokens_per_second can lie on, for a stream and a
\* latency in ticks.
RateErrs(response_stream, total_latency) ==
    LET st == StreamLoop(response_stream, 1, 0,
                         [first_token_time |-> None,
                          full_response |-> "",
                          final_chunk |-> EmptyDict])
        tokens_generated == Get(st.final_chunk, "eval_count", 0)
    IN  IF tokens_generated # 0 /\ total_latency > 0
        THEN TieErrs(tokens_generated * 100 * TicksPerSecond, total_latency, 25)
        ELSE {0}

----------------------------------------------------------------------------
(* The client on its own.  generate_response keeps no state between calls, *)
(* so one call on every stream and timing covers every call.               *)

InitIdle ==
    /\ pc = "api"
    /\ config = EmptyDict
    /\ model_i = 0
    /\ iteration = 0
    /\ wall = 0
    /\ ollama_process = None
    /\ resource_snapshots = <<>>
    /\ llm_metrics = None
    /\ results = EmptyDict
    /\ final_report = None
    /\ call = [fn |-> "none"]
    /\ ret = None
    /\ raised = "none"
    /\ calls = 0

ClientGenerate ==
    /\ call.fn = "none"
    /\ \E s \in Streams, t0 \in PerfStarts, d1 \in Delays, d2 \in Delays :
        \E e \in RateErrs(s, d1 + d2) :
        LET r == generate_response(Prompt, s, t0, t0 + d1, t0 + d1 + d2, e)
        IN  /\ call' = [fn |-> "generate_response", stream |-> s,
                        start_time |-> t0, end_time |-> t0 + d1 + d2,
                        rate_err |-> e]
            /\ ret' = r.ret
            /\ raised' = r.raised
            /\ UNCHANGED <<pc, config, model_i, iteration, wall, ollama_process,
                           resource_snapshots, llm_metrics, results,
                           final_report, calls>>

ClientInit == InitIdle
ClientNext == ClientGenerate
SpecClient == ClientInit /\ [][ClientNext]_vars

----------------------------------------------------------------------------
(* resource_monitor.py: ResourceMonitor *)

\* What subprocess.run(['sensors'], check=True, timeout=5) can do: raise
\* FileNotFoundError (no such tool), CalledProcessError (non-zero exit) or
\* TimeoutExpired (no exit within the timeout), or return the tool's output.
\* A line of output is described by what the parser asks of it: whether it
\* contains one of the keywords, and the first match of temp_pattern in it
\* (in 0.1 degrees Celsius; the pattern matches unsigned decimals after '+').
SensorTimeout == 5

SensorLine(keyword, temp) == [keyword |-> keyword, temp |-> temp]

SensorOutputs ==
    { <<>>,
      <<SensorLine(TRUE, Some(450))>>,
      <<SensorLine(FALSE, Some(380)), SensorLine(FALSE, Some(520))>>,
      <<SensorLine(TRUE, None), SensorLine(FALSE, None)>>,
      <<SensorLine(FALSE, Some(600)), SensorLine(TRUE, Some(450))>> }

SensorFailures == {"FileNotFoundError", "CalledProcessError", "TimeoutExpired"}

SensorRuns ==
    {[kind |-> k] : k \in SensorFailures}
    \cup {[kind |-> "stdout", lines |-> o] : o \in SensorOutputs}

\* The exception classes of the except clause of _get_system_temperature.
\* TimeoutExpired derives from SubprocessError, not from CalledProcessError.
TemperatureCaught ==
    {"FileNotFoundError", "CalledProcessError", "IndexError", "ValueError"}

\* Lines 52-59: the first line with a keyword and a match, from line i on.
RECURSIVE KeywordScan(_, _)
KeywordScan(lines, i) ==
    IF i > Len(lines) THEN None
    ELSE IF lines[i].keyword /\ ~IsNone(lines[i].temp) THEN lines[i].temp
    ELSE KeywordScan(lines, i + 1)

\* Lines 63-71: the highest match of any line, from line i on.
RECURSIVE HighestScan(_, _, _)
HighestScan(lines, i, highest_temp) ==
    IF i > Len(lines) THEN highest_temp
    ELSE IF ~IsNone(lines[i].temp)
            /\ (IsNone(highest_temp) \/ The(lines[i].temp) > The(highest_temp))
         THEN HighestScan(lines, i + 1, lines[i].temp)
    ELSE HighestScan(lines, i + 1, highest_temp)

\* [raised, value]: value is the optional float the method returns.
_get_system_temperature(run) ==
    IF run.kind = "stdout"
    THEN LET first == KeywordScan(run.lines, 1)
         IN  [raised |-> "none",
              value |-> IF ~IsNone(first) THEN first
                        ELSE HighestScan(run.lines, 1, None)]
    ELSE IF run.kind \in TemperatureCaught
    THEN [raised |-> "none", value |-> None]
    ELSE [raised |-> run.kind, value |-> None]

\* The tracked process, as psutil.Process(pid): any object is truthy.
OllamaPid == 4242
Handles == {None, Some(OllamaPid)}

\* What a read of the tracked process can do: return a value, or raise
\* NoSuchProcess (the process is gone) or AccessDenied (it may not be read).
ProcessFailures == {"NoSuchProcess", "AccessDenied"}
ReadOk(v) == [raised |-> "none", value |-> v]
ReadFails(e) == [raised |-> e]

\* The exception class of the except clause of get_resource_snapshot.
SnapshotCaught == {"NoSuchProcess"}

NotFoundStatus == "Process not found (Crashed/Exited)"

\* round(system_memory.used / (1024*2), 2), counted in 0.01; used is given in
\* KiB, and used / (1024*2) bytes is used_kib / 2.  A quotient by a power of
\* two is exact in a double.
SystemRamField(used_kib) == round(used_kib * 100, 2, 0)
\* round(process_memory.rss / (1024**3), 2), counted in 0.01; rss is given in
\* MiB, and rss / (1024**3) bytes is rss_mib / 1024, exact in a double.
ProcessRamField(rss_mib) == round(rss_mib * 100, 1024, 0)

HostFields ==
    {"timestamp", "system_cpu_percent", "system_ram_used_gb", "system_temp_celsius"}
ProcessFields == {"ollama_process_cpu_percent", "ollama_process_ram_rss_gb"}

\* Lines 94-103, the block under `if self.ollama_process:`, entered with a
\* tracked handle: the two reads, then the fields they add to data or the
\* except clause.  [raised, data, ollama_process, process].
ProcessPartKeepingHandle(handle, data, cpu_read, mem_read) ==
    LET failed == IF cpu_read.raised # "none" THEN cpu_read.raised
                  ELSE mem_read.raised
    IN  IF failed = "none"
        THEN [raised |-> "none",
              data |-> Put(Put(data, "ollama_process_cpu_percent", cpu_read.value),
                           "ollama_process_ram_rss_gb", ProcessRamField(mem_read.value)),
              ollama_process |-> handle, process |-> "ok"]
        ELSE IF failed \in SnapshotCaught
        THEN [raised |-> "none",
              data |-> Put(data, "ollama_process_status", NotFoundStatus),
              ollama_process |-> handle, process |-> failed]
        ELSE [raised |-> failed, data |-> data,
              ollama_process |-> handle, process |-> failed]

ProcessPart(handle, data, cpu_read, mem_read) ==
    LET failed == IF cpu_read.raised # "none" THEN cpu_read.raised
                  ELSE mem_read.raised
    IN  IF failed = "none"
        THEN [raised |-> "none",
              data |-> Put(Put(data, "ollama_process_cpu_percent", cpu_read.value),
                           "ollama_process_ram_rss_gb", ProcessRamField(mem_read.value)),
              ollama_process |-> handle, process |-> "ok"]
        ELSE IF failed \in SnapshotCaught
        THEN [raised |-> "none",
              data |-> Put(data, "ollama_process_status", NotFoundStatus),
              ollama_process |-> None, process |-> failed]
        ELSE [raised |-> failed, data |-> data,
              ollama_process |-> handle, process |-> failed]

\* get_resource_snapshot on a monitor whose handle is `handle`, with what the
\* host answers: the clock, the host CPU and RAM, the sensor tool's run and
\* the two reads of the tracked process.  [raised, ret, ollama_process,
\* process]: the new handle, and what the process reads did ("none" when no
\* read was attempted).
get_resource_snapshot(handle, now, system_cpu, used_kib, run, cpu_read, mem_read) ==
    LET temp == _get_system_temperature(run)
        data == [timestamp |-> now,
                 system_cpu_percent |-> system_cpu,
                 system_ram_used_gb |-> SystemRamField(used_kib),
                 system_temp_celsius |-> temp.value]
        part == ProcessPart(handle, data, cpu_read, mem_read)
    IN  IF temp.raised # "none"
        THEN [raised |-> temp.raised, ret |-> None,
              ollama_process |-> handle, process |-> "none"]
        ELSE IF IsNone(handle)
        THEN [raised |-> "none", ret |-> Some(data),
              ollama_process |-> handle, process |-> "none"]
        ELSE [raised |-> part.raised,
              ret |-> IF part.raised = "none" THEN Some(part.data) ELSE None,
              ollama_process |-> part.ollama_process,
              process |-> part.process]

\* What the host can answer to one snapshot.
SystemCpus == {100, 850}           \* psutil.cpu_percent(), in 0.1 %
UsedKiB == {8388608}               \* virtual_memory().used, in KiB
WallSteps == {0, 1}                \* seconds between two time.time() readings
ProcessCpus == {300, 1200}         \* Process.cpu_percent(), in 0.1 %
ProcessRssMiB == {1536}            \* Process.memory_info().rss, in MiB

CpuReads == {ReadOk(v) : v \in ProcessCpus} \cup {ReadFails(e) : e \in ProcessFailures}
MemReads == {ReadOk(v) : v \in ProcessRssMiB} \cup {ReadFails(e) : e \in ProcessFailures}

----------------------------------------------------------------------------
(* The monitor on its own: discovery at construction, then snapshots. *)

MonitorInit ==
    /\ pc = "api"
    /\ config = EmptyDict
    /\ model_i = 0
    /\ iteration = 0
    /\ wall = 0
    /\ ollama_process \in Handles      \* _find_ollama_pid found it, or not
    /\ resource_snapshots = <<>>
    /\ llm_metrics = None
    /\ results = EmptyDict
    /\ final_report = None
    /\ call = [fn |-> "none"]
    /\ ret = None
    /\ raised = "none"
    /\ calls = 0

MonitorSnapshot ==
    /\ calls < MaxCalls
    /\ \E step \in WallSteps, c \in SystemCpus, u \in UsedKiB, run \in SensorRuns,
          cr \in CpuReads, mr \in MemReads :
        LET r == get_resource_snapshot(ollama_process, wall + step, c, u, run, cr, mr)
        IN  /\ calls' = calls + 1
            /\ wall' = wall + step
            /\ call' = [fn |-> "get_resource_snapshot", handle |-> ollama_process,
                        sensor |-> run, process |-> r.process]
            /\ ollama_process' = r.ollama_process
            /\ ret' = r.ret
            /\ raised' = r.raised
            /\ UNCHANGED <<pc, config, model_i, iteration, resource_snapshots,
                           llm_metrics, results, final_report>>

MonitorNext == MonitorSnapshot
SpecMonitor == MonitorInit /\ [][MonitorNext]_vars

----------------------------------------------------------------------------
(* report_generator.py: ReportGenerator *)

ModelNames == {"A", "B"}

\* add_result: the new value of self.results.  run_timestamp is the reading
\* of datetime.now() (its isoformat() text is not modelled).
add_result(res, model_name, iteration_data, resources_data, run_timestamp) ==
    LET combined_data == [run_timestamp |-> run_timestamp,
                          llm_metrics |-> iteration_data,
                          resource_snapshots |-> resources_data]
    IN  Put(res, model_name, Append(Get(res, model_name, <<>>), combined_data))

\* The loop of lines 43-47 for one key: the sum of the field over runs[i..].
RECURSIVE SumMetric(_, _, _, _)
SumMetric(runs, i, key, acc) ==
    IF i > Len(runs) THEN acc
    ELSE SumMetric(runs, i + 1, key, acc + runs[i].llm_metrics[key])

\* The sum of a key counted in 0.0001.  The durations are already counted
\* in 0.0001 s; tokens_per_second is counted in 0.01.
ScaledSum(key, total) == IF key = "tokens_per_second" THEN total * 100 ELSE total

\* round(total / total_runs, 4), counted in 0.0001; err is the side of the
\* double avg_metrics[key] / avg_metrics["total_runs"].
RoundMean(key, total, total_runs, err) == round(ScaledSum(key, total), total_runs, err)

AveragedKeys == {"total_latency_s", "time_to_first_token_s", "tokens_per_second"}

\* The sides the doubles of the three means of a model can lie on, as
\* functions of the key.
MeanErrs(res, model_name) ==
    LET runs == Get(res, model_name, <<>>)
    IN  IF runs = <<>> THEN {[key \in AveragedKeys |-> 0]}
        ELSE {errs \in [AveragedKeys -> FloatErrs] :
                 \A key \in AveragedKeys :
                     errs[key] \in TieErrs(ScaledSum(key, SumMetric(runs, 1, key, 0)),
                                           Len(runs), 625)}

\* A variant that guards the division instead of returning early.
_calculate_averages_guarding(res, model_name, errs) ==
    LET runs == Get(res, model_name, <<>>)
    IN  [key \in AveragedKeys \cup {"total_runs"} |->
            IF key = "total_runs" THEN Len(runs)
            ELSE IF runs = <<>> THEN 0
            ELSE RoundMean(key, SumMetric(runs, 1, key, 0), Len(runs), errs[key])]

\* A variant that averages over the runs of every model.
_calculate_averages_pooling(res, model_name, errs) ==
    LET runs == Get(res, "A", <<>>) \o Get(res, "B", <<>>)
    IN  IF Get(res, model_name, <<>>) = <<>> THEN EmptyDict
        ELSE [key \in AveragedKeys \cup {"total_runs"} |->
                 IF key = "total_runs" THEN Len(Get(res, model_name, <<>>))
                 ELSE RoundMean(key, SumMetric(runs, 1, key, 0), Len(runs), errs[key])]

\* _calculate_averages: the dict it returns; errs gives the side of the
\* double of each mean.
_calculate_averages(res, model_name, errs) ==
    LET runs == Get(res, model_name, <<>>)
    IN  IF runs = <<>> THEN EmptyDict
        ELSE [key \in AveragedKeys \cup {"total_runs"} |->
                 IF key = "total_runs" THEN Len(runs)
                 ELSE RoundMean(key, SumMetric(runs, 1, key, 0), Len(runs), errs[key])]

\* finalize_report: the report handed to json.dump.  test_models is the set
\* of keys (their insertion order is not modelled); errs gives, for each
\* model, the sides of the doubles of its means.
finalize_report(res, now, errs) ==
    [metadata |-> [report_generated |-> now, test_models |-> DOMAIN res],
     summary_by_model |->
         [model \in DOMAIN res |-> _calculate_averages(res, model, errs[model])],
     raw_results |-> res]

\* The sides the doubles of the means of a report can lie on.
ReportErrs(res) ==
    {errs \in [DOMAIN res -> [AveragedKeys -> FloatErrs]] :
        \A model \in DOMAIN res : errs[model] \in MeanErrs(res, model)}

----------------------------------------------------------------------------
(* report_analyzer.py: analyze_resource_usage *)

\* The default entry of the defaultdict.
DefaultMax == [max_system_cpu |-> 0, max_ollama_cpu |-> 0, max_ollama_ram_gb |-> 0]

\* A variant whose process-CPU maximum reads the host's CPU field.
RECURSIVE ScanSnapshotsWrongKey(_, _, _)
ScanSnapshotsWrongKey(snapshots, i, entry) ==
    IF i > Len(snapshots) THEN entry
    ELSE LET snapshot == snapshots[i]
             e == IF IsNone(entry) THEN DefaultMax ELSE The(entry)
             next ==
               [max_system_cpu |->
                    MaxOf(e.max_system_cpu, Get(snapshot, "system_cpu_percent", 0)),
                max_ollama_cpu |->
                    MaxOf(e.max_ollama_cpu, Get(snapshot, "system_cpu_percent", 0)),
                max_ollama_ram_gb |->
                    MaxOf(e.max_ollama_ram_gb, Get(snapshot, "ollama_process_ram_rss_gb", 0))]
         IN  ScanSnapshotsWrongKey(snapshots, i + 1, Some(next))

\* The innermost loop: snapshots[i..] of one run, entry being the model's
\* entry, None while the defaultdict has not been asked for the model.
RECURSIVE ScanSnapshots(_, _, _)
ScanSnapshots(snapshots, i, entry) ==
    IF i > Len(snapshots) THEN entry
    ELSE LET snapshot == snapshots[i]
             e == IF IsNone(entry) THEN DefaultMax ELSE The(entry)
             next ==
               [max_system_cpu |->
                    MaxOf(e.max_system_cpu, Get(snapshot, "system_cpu_percent", 0)),
                max_ollama_cpu |->
                    MaxOf(e.max_ollama_cpu, Get(snapshot, "ollama_process_cpu_percent", 0)),
                max_ollama_ram_gb |->
                    MaxOf(e.max_ollama_ram_gb, Get(snapshot, "ollama_process_ram_rss_gb", 0))]
         IN  ScanSnapshots(snapshots, i + 1, Some(next))

\* The loop over the runs of one model, from run j on.
RECURSIVE ScanRuns(_, _, _)
ScanRuns(runs, j, entry) ==
    IF j > Len(runs) THEN entry
    ELSE ScanRuns(runs, j + 1,
                  ScanSnapshots(Get(runs[j], "resource_snapshots", <<>>), 1, entry))

\* analyze_resource_usage: dict(model_max_resources), which holds the models
\* the loops asked the defaultdict for.
analyze_resource_usage(raw_results) ==
    LET touched == {model \in DOMAIN raw_results :
                        ~IsNone(ScanRuns(raw_results[model], 1, None))}
    IN  [model \in touched |-> The(ScanRuns(raw_results[model], 1, None))]

----------------------------------------------------------------------------
(* Sample values: what the client and the monitor return for sample inputs *)

SampleStream == <<[response |-> "a"], [response |-> "", done |-> TRUE, eval_count |-> 2]>>

\* generate_response's record for a request answered after d1 ticks and
\* finished after d2 more.  No rate of the samples is a tie.
MetricsOf(stream, d1, d2) ==
    The(generate_response(Prompt, stream, 7, 7 + d1, 7 + d1 + d2, 0).ret)

\* Latencies of 2.0, 3.0 and 4.0 seconds, and of 80 and 640 microseconds:
\* the last two are recorded as 0.0001 and 0.0006 s, whose mean 0.00035 is a
\* tie that no double holds.
MetricsSamples ==
    { MetricsOf(SampleStream, 20, 99980), MetricsOf(SampleStream, 50000, 100000),
      MetricsOf(SampleStream, 20, 199980), MetricsOf(SampleStream, 2, 2),
      MetricsOf(SampleStream, 16, 16) }

SensorOk == [kind |-> "stdout", lines |-> <<SensorLine(TRUE, Some(450))>>]

\* get_resource_snapshot's dict on a host-only monitor, and on a tracking one.
HostSnapshot(now, system_cpu) ==
    The(get_resource_snapshot(None, now, system_cpu, 8388608, SensorOk,
                              ReadOk(0), ReadOk(0)).ret)
ProcessSnapshot(now, system_cpu, process_cpu, rss_mib) ==
    The(get_resource_snapshot(Some(OllamaPid), now, system_cpu, 8388608, SensorOk,
                              ReadOk(process_cpu), ReadOk(rss_mib)).ret)

SamplePair == <<HostSnapshot(1, 100), HostSnapshot(2, 850)>>

----------------------------------------------------------------------------
(* The report generator on its own: add_result and _calculate_averages *)
(* called in any order on any model name.                              *)

ReporterInit == InitIdle

ReporterAdd ==
    /\ calls < MaxCalls
    /\ \E m \in ModelNames, metrics \in MetricsSamples :
        /\ calls' = calls + 1
        /\ wall' = wall + 1
        /\ results' = add_result(results, m, metrics, SamplePair, wall)
        /\ call' = [fn |-> "add_result", model_name |-> m]
        /\ ret' = None
        /\ raised' = "none"
        /\ UNCHANGED <<pc, config, model_i, iteration, ollama_process,
                       resource_snapshots, llm_metrics, final_report>>

ReporterSummarize ==
    \E m \in ModelNames :
      \E errs \in MeanErrs(results, m) :
        /\ call' = [fn |-> "_calculate_averages", model_name |-> m, errs |-> errs]
        /\ ret' = Some(_calculate_averages(results, m, errs))
        /\ raised' = "none"
        /\ UNCHANGED <<pc, config, model_i, iteration, wall, ollama_process,
                       resource_snapshots, llm_metrics, results, final_report,
                       calls>>

ReporterNext == ReporterAdd \/ ReporterSummarize
SpecReporter == ReporterInit /\ [][ReporterNext]_vars

----------------------------------------------------------------------------
(* The analyzer on its own, on the raw_results of a report read back.  It  *)
(* keeps no state, so one call on every input covers every call.           *)

\* Snapshots as the monitor writes them: host-only, and two with process
\* fields whose three values peak in different snapshots.
SnapshotKinds ==
    { HostSnapshot(1, 850),
      ProcessSnapshot(2, 100, 1200, 1536),
      ProcessSnapshot(3, 500, 300, 3277) }

\* A run as add_result writes it, and a run whose snapshots are missing.
RunOf(snaps) == add_result(EmptyDict, "A", MetricsOf(SampleStream, 20, 20), snaps, 1)["A"][1]
RunWithoutSnapshots ==
    [run_timestamp |-> 1, llm_metrics |-> MetricsOf(SampleStream, 20, 20)]

AnalyzedRuns ==
    {RunOf(ss) : ss \in SeqsUpTo(SnapshotKinds, MaxSnaps)} \cup {RunWithoutSnapshots}

\* The runs of a second model, higher than any value of the first.
OtherRuns == <<RunOf(<<ProcessSnapshot(1, 990, 2000, 9000)>>)>>

RawResultsInputs ==
    LET a == {("A" :> runs) : runs \in SeqsUpTo(AnalyzedRuns, MaxRuns)}
        b == {EmptyDict, ("B" :> <<>>), ("B" :> OtherRuns)}
    IN  {x @@ y : x \in a, y \in b}

AnalyzerInit == InitIdle

AnalyzerAnalyze ==
    /\ call.fn = "none"
    /\ \E raw_results \in RawResultsInputs :
        /\ call' = [fn |-> "analyze_resource_usage", raw_results |-> raw_results]
        /\ ret' = Some(analyze_resource_usage(raw_results))
        /\ raised' = "none"
        /\ UNCHANGED <<pc, config, model_i, iteration, wall, ollama_process,
                       resource_snapshots, llm_metrics, results, final_report,
                       calls>>

AnalyzerNext == AnalyzerAnalyze
SpecAnalyzer == AnalyzerInit /\ [][AnalyzerNext]_vars

----------------------------------------------------------------------------
(* benchmark_runner.py: run_benchmark.  One session: a monitor, a client   *)
(* and a report generator are constructed, then the loops run.  An         *)
(* exception of any call is not caught and ends the session ("crashed").   *)

Configs ==
    {[models_to_test |-> ms, iterations |-> n] :
        ms \in {<<"A">>, <<"A", "B">>}, n \in 1..MaxIterations}

\* What the host answers to a snapshot during a session: a quiet host, a
\* host whose Ollama process has exited and which has no sensor tool, a
\* sensor tool that hangs, and a process that may not be read.
SessionHosts ==
    { [step |-> 1, system_cpu |-> 100, run |-> SensorOk,
       cpu_read |-> ReadOk(300), mem_read |-> ReadOk(1536)],
      [step |-> 0, system_cpu |-> 850, run |-> [kind |-> "FileNotFoundError"],
       cpu_read |-> ReadFails("NoSuchProcess"), mem_read |-> ReadFails("NoSuchProcess")],
      [step |-> 1, system_cpu |-> 850, run |-> [kind |-> "TimeoutExpired"],
       cpu_read |-> ReadOk(300), mem_read |-> ReadOk(1536)],
      [step |-> 1, system_cpu |-> 100, run |-> SensorOk,
       cpu_read |-> ReadOk(300), mem_read |-> ReadFails("AccessDenied")] }

\* What the server answers to a request during a session: a full answer
\* after a second, and no chunk.
SessionAnswers ==
    { [stream |-> SampleStream, d1 |-> 16, d2 |-> 49984],
      [stream |-> <<>>, d1 |-> 0, d2 |-> 2] }

CurrentModel == config.models_to_test[model_i]

Init ==
    /\ pc = "snapshot_pre"
    /\ config \in Configs
    /\ model_i = 1
    /\ iteration = 1
    /\ wall = 0
    /\ ollama_process \in Handles      \* _find_ollama_pid found it, or not
    /\ resource_snapshots = <<>>
    /\ llm_metrics = None
    /\ results = EmptyDict
    /\ final_report = None
    /\ call = [fn |-> "none"]
    /\ ret = None
    /\ raised = "none"
    /\ calls = 0

\* monitor.get_resource_snapshot() appended to the list `before`, then on to `to`.
SessionSnapshot(before, to) ==
    \E h \in SessionHosts :
        LET r == get_resource_snapshot(ollama_process, wall + h.step, h.system_cpu,
                                       8388608, h.run, h.cpu_read, h.mem_read)
        IN  /\ wall' = wall + h.step
            /\ call' = [fn |-> "get_resource_snapshot", handle |-> ollama_process,
                        sensor |-> h.run, process |-> r.process]
            /\ ollama_process' = r.ollama_process
            /\ ret' = r.ret
            /\ raised' = r.raised
            /\ IF r.raised = "none"
               THEN /\ resource_snapshots' = Append(before, The(r.ret))
                    /\ pc' = to
               ELSE /\ resource_snapshots' = before
                    /\ pc' = "crashed"
            /\ UNCHANGED <<config, model_i, iteration, llm_metrics, results,
                           final_report, calls>>

\* resource_snapshots = []; resource_snapshots.append(monitor.get_resource_snapshot())
RunSnapshotPre ==
    /\ pc = "snapshot_pre"
    /\ SessionSnapshot(<<>>, "generate")

\* llm_metrics = llm_client.generate_response(model, prompt)
RunGenerate ==
    /\ pc = "generate"
    /\ \E a \in SessionAnswers, t0 \in {7} :
      \E e \in RateErrs(a.stream, a.d1 + a.d2) :
        LET r == generate_response(Prompt, a.stream, t0, t0 + a.d1, t0 + a.d1 + a.d2, e)
        IN  /\ call' = [fn |-> "generate_response", stream |-> a.stream,
                        start_time |-> t0, end_time |-> t0 + a.d1 + a.d2,
                        rate_err |-> e]
            /\ ret' = r.ret
            /\ raised' = r.raised
            \* the assignment of line 56 does not happen when the call raises
            /\ llm_metrics' = IF r.raised = "none" THEN r.ret ELSE llm_metrics
            /\ pc' = IF r.raised = "none" THEN "snapshot_post" ELSE "crashed"
            /\ UNCHANGED <<config, model_i, iteration, wall, ollama_process,
                           resource_snapshots, results, final_report, calls>>

\* A variant of the loop body that takes no snapshot after the request.
RunWithoutSnapshotPost ==
    /\ pc = "snapshot_post"
    /\ pc' = "add_result"
    /\ UNCHANGED <<config, model_i, iteration, wall, ollama_process,
                   resource_snapshots, llm_metrics, results, final_report,
                   call, ret, raised, calls>>

\* resource_snapshots.append(monitor.get_resource_snapshot())
RunSnapshotPost ==
    /\ pc = "snapshot_post"
    /\ SessionSnapshot(resource_snapshots, "add_result")

\* reporter.add_result(...); time.sleep(1); then the loops' next step.
RunAddResult ==
    /\ pc = "add_result"
    /\ results' = add_result(results, CurrentModel, The(llm_metrics),
                             resource_snapshots, wall)
    /\ wall' = wall + 1
    /\ call' = [fn |-> "add_result", model_name |-> CurrentModel]
    /\ ret' = None
    /\ raised' = "none"
    /\ IF iteration < config.iterations
       THEN /\ iteration' = iteration + 1
            /\ model_i' = model_i
            /\ pc' = "snapshot_pre"
       ELSE IF model_i < Len(config.models_to_test)
       THEN /\ iteration' = 1
            /\ model_i' = model_i + 1
            /\ pc' = "snapshot_pre"
       ELSE /\ iteration' = iteration
            /\ model_i' = model_i
            /\ pc' = "finalize"
    /\ UNCHANGED <<config, ollama_process, resource_snapshots, llm_metrics,
                   final_report, calls>>

\* reporter.finalize_report()
RunFinalize ==
    /\ pc = "finalize"
    /\ \E errs \in ReportErrs(results) :
        /\ final_report' = Some(finalize_report(results, wall, errs))
        /\ call' = [fn |-> "finalize_report", errs |-> errs]
    /\ ret' = None
    /\ raised' = "none"
    /\ pc' = "done"
    /\ UNCHANGED <<config, model_i, iteration, wall, ollama_process,
                   resource_snapshots, llm_metrics, results, calls>>

Next ==
    \/ RunSnapshotPre
    \/ RunGenerate
    \/ RunSnapshotPost
    \/ RunAddResult
    \/ RunFinalize

Spec == Init /\ [][Next]_vars

----------------------------------------------------------------------------
(* Properties *)

Returned(fn) == call.fn = fn /\ raised = "none"

\* C1 (SpecClient): when the stream yields zero chunks, generate_response
\* does not raise; it returns a record whose time_to_first_token_s is absent
\* and whose tokens_per_second is 0.
C1_ZeroChunksReturn ==
    (call.fn = "generate_response" /\ call.stream = <<>>) =>
        /\ raised = "none"
        /\ ~HasKey(The(ret), "time_to_first_token_s")
        /\ The(ret).tokens_per_second = 0

\* A sensor run that fails, or whose output holds no temperature.
NoTemperature(run) ==
    \/ run.kind \in SensorFailures
    \/ /\ run.kind = "stdout"
       /\ \A i \in 1..Len(run.lines) : IsNone(run.lines[i].temp)

\* C2 (SpecMonitor): whatever the sensor tool does (missing, non-zero exit,
\* timeout, output without a temperature), the temperature reader raises
\* nothing, and a snapshot that is returned carries the temperature None.
C2_TemperatureNeverRaises ==
    (call.fn = "get_resource_snapshot" /\ NoTemperature(call.sensor)) =>
        /\ raised \notin SensorFailures
        /\ raised = "none" => IsNone(The(ret).system_temp_celsius)

\* C3 (SpecMonitor): the handle is a one-way state machine.  A cleared handle
\* stays cleared; a snapshot whose process read finds the process gone
\* returns with the not-found status and clears the handle; a snapshot taken
\* with a cleared handle attempts no process read and, when it returns,
\* holds the host fields only.
C3_HandleOneWay ==
    [][ /\ IsNone(ollama_process) => IsNone(ollama_process')
        /\ (calls' = calls + 1 /\ call'.process = "NoSuchProcess") =>
              /\ raised' = "none"
              /\ Get(The(ret'), "ollama_process_status", "") = NotFoundStatus
              /\ IsNone(ollama_process')
        /\ (calls' = calls + 1 /\ IsNone(ollama_process)) =>
              /\ call'.process = "none"
              /\ raised' = "none" => DOMAIN The(ret') = HostFields
      ]_vars

\* A snapshot has just found the tracked process gone.
C3_Witness ==
    /\ Returned("get_resource_snapshot")
    /\ ~IsNone(call.handle)
    /\ call.process = "NoSuchProcess"
    /\ HasKey(The(ret), "ollama_process_status")
    /\ IsNone(ollama_process)
    /\ calls >= 2

\* _calculate_averages has just been called on a model without runs.
SummarizedEmpty ==
    /\ call.fn = "_calculate_averages"
    /\ Get(results, call.model_name, <<>>) = <<>>

\* C4 as stated (SpecReporter): summarizing a model with zero runs does not
\* raise and yields a summary whose total_runs is 0.
C4_ZeroRunsTotalRunsZero ==
    SummarizedEmpty =>
        /\ raised = "none"
        /\ HasKey(The(ret), "total_runs")
        /\ The(ret).total_runs = 0

\* C4 as amended (SpecReporter): summarizing a model with zero runs does not
\* raise and yields the empty summary, which has no total_runs field.
C4_ZeroRunsEmptySummary ==
    SummarizedEmpty =>
        /\ raised = "none"
        /\ The(ret) = EmptyDict

\* A model without runs is summarized while the other model has runs.
C4_Witness ==
    /\ SummarizedEmpty
    /\ results # EmptyDict
    /\ ~IsNone(ret)

\* Every snapshot of every run of a model, as (run, index) pairs.
SnapshotsOf(runs) ==
    UNION {{<<j, i>> : i \in 1..Len(Get(runs[j], "resource_snapshots", <<>>))} :
              j \in 1..Len(runs)}
SnapshotAt(runs, p) == runs[p[1]].resource_snapshots[p[2]]

\* C5 (SpecAnalyzer): every model of raw_results has an entry with all three
\* fields, the process fields being 0 when no snapshot has process data.
C5_NoModelSkipped ==
    call.fn = "analyze_resource_usage" =>
        /\ raised = "none"
        /\ \A model \in DOMAIN call.raw_results :
              /\ HasKey(The(ret), model)
              /\ DOMAIN The(ret)[model] = DOMAIN DefaultMax
              /\ (\A p \in SnapshotsOf(call.raw_results[model]) :
                      DOMAIN SnapshotAt(call.raw_results[model], p) \cap ProcessFields = {})
                 => /\ The(ret)[model].max_ollama_cpu = 0
                    /\ The(ret)[model].max_ollama_ram_gb = 0

\* C6 (SpecMonitor): whenever a read of the tracked process fails, the call
\* still returns a snapshot with the host fields and without the process
\* CPU and RAM fields.
C6_ProcessReadFailureNonFatal ==
    (call.fn = "get_resource_snapshot" /\ call.process \in ProcessFailures) =>
        /\ raised = "none"
        /\ HostFields \subseteq DOMAIN The(ret)
        /\ DOMAIN The(ret) \cap ProcessFields = {}

\* C7 (Spec): every run held by the report generator has at least two
\* snapshots, with non-decreasing timestamps.  time.time() is taken not to
\* be set back during a session (WallSteps holds no negative step).
C7_SnapshotsBracketRun ==
    \A model \in DOMAIN results :
        \A j \in 1..Len(results[model]) :
            LET snaps == results[model][j].resource_snapshots
            IN  /\ Len(snaps) >= 2
                /\ \A i \in 1..(Len(snaps) - 1) :
                       snaps[i].timestamp <= snaps[i + 1].timestamp

\* A finished session of two models, one run of which spans a clock step.
C7_Witness ==
    /\ pc = "done"
    /\ DOMAIN results = {"A", "B"}
    /\ Len(results["B"]) = MaxIterations
    /\ \E j \in 1..Len(results["A"]) :
           results["A"][j].resource_snapshots[1].timestamp
               < results["A"][j].resource_snapshots[2].timestamp

\* The unrounded latency of the request, in ticks.
TotalLatency == call.end_time - call.start_time

\* C8 as stated (SpecClient): in every record returned, tokens_per_second is
\* non-negative, is 0 whenever tokens_generated is 0 or total_latency_s is 0,
\* and is a quotient only when both are greater than 0.
C8_ZeroWhenRecordLatencyZero ==
    Returned("generate_response") =>
        LET m == The(ret)
        IN  /\ m.tokens_per_second >= 0
            /\ (m.tokens_generated = 0 \/ m.total_latency_s = 0)
                   => m.tokens_per_second = 0
            /\ m.tokens_per_second > 0
                   => (m.tokens_generated > 0 /\ m.total_latency_s > 0)

\* C8 as amended (SpecClient): the same of the unrounded latency
\* end_time - start_time, of which total_latency_s is the rounding.
C8_ZeroWhenLatencyZero ==
    Returned("generate_response") =>
        LET m == The(ret)
        IN  /\ m.tokens_per_second >= 0
            /\ (m.tokens_generated = 0 \/ TotalLatency = 0)
                   => m.tokens_per_second = 0
            /\ m.tokens_per_second > 0
                   => (m.tokens_generated > 0 /\ TotalLatency > 0)

\* A record with tokens and no latency at all.
C8_Witness ==
    /\ Returned("generate_response")
    /\ The(ret).tokens_generated > 0
    /\ TotalLatency = 0
    /\ The(ret).tokens_per_second = 0

\* The sum of a metric over runs, taken from the last run down.
RECURSIVE MetricTotal(_, _)
MetricTotal(runs, key) ==
    IF runs = <<>> THEN 0
    ELSE MetricTotal(SubSeq(runs, 1, Len(runs) - 1), key)
             + runs[Len(runs)].llm_metrics[key]

\* The sum counted in the unit of the summary (0.0001).
ScaledTotal(runs, key) ==
    IF key = "tokens_per_second" THEN MetricTotal(runs, key) * 100
    ELSE MetricTotal(runs, key)

Abs(x) == IF x < 0 THEN -x ELSE x

\* _calculate_averages has just been called on a model with runs.
SummarizedRuns ==
    /\ Returned("_calculate_averages")
    /\ Get(results, call.model_name, <<>>) # <<>>

\* C9 as stated (SpecReporter): the summary of a model with n >= 1 runs has
\* total_runs n and each field equal to the arithmetic mean of the field
\* over that model's runs.
C9_SummaryIsMean ==
    SummarizedRuns =>
        LET runs == results[call.model_name]
        IN  /\ The(ret).total_runs = Len(runs)
            /\ \A key \in AveragedKeys :
                   The(ret)[key] * Len(runs) = ScaledTotal(runs, key)

\* C9 as amended (SpecReporter): each field is that mean rounded to 4
\* decimal places: a multiple of 0.0001 at most half of 0.0001 from it.
C9_SummaryIsRoundedMean ==
    SummarizedRuns =>
        LET runs == results[call.model_name]
        IN  /\ The(ret).total_runs = Len(runs)
            /\ DOMAIN The(ret) = AveragedKeys \cup {"total_runs"}
            /\ \A key \in AveragedKeys :
                   2 * Abs(The(ret)[key] * Len(runs) - ScaledTotal(runs, key))
                       <= Len(runs)

\* Latencies of 2.0, 3.0 and 4.0 seconds are summarized as 3.0 over 3 runs.
C9_Witness ==
    /\ SummarizedRuns
    /\ Len(results[call.model_name]) = 3
    /\ \A j \in 1..3 :
           results[call.model_name][j].llm_metrics.total_latency_s = (j + 1) * 10000
    /\ The(ret).total_latency_s = 30000
    /\ The(ret).total_runs = 3

\* The values of a snapshot field over the snapshots of a model, a missing
\* field counting as 0.
FieldValues(runs, key) == {Get(SnapshotAt(runs, p), key, 0) : p \in SnapshotsOf(runs)}

IsMaximum(v, values) == v \in values /\ \A x \in values : x <= v

\* C10 (SpecAnalyzer): for every model with at least one snapshot, each of
\* the three fields is the maximum of its metric over the snapshots of the
\* runs of that model alone, a missing field counting as 0.
C10_PeakPerModel ==
    Returned("analyze_resource_usage") =>
        \A model \in DOMAIN call.raw_results :
            LET runs == call.raw_results[model]
            IN  SnapshotsOf(runs) # {} =>
                  /\ HasKey(The(ret), model)
                  /\ IsMaximum(The(ret)[model].max_system_cpu,
                               FieldValues(runs, "system_cpu_percent"))
                  /\ IsMaximum(The(ret)[model].max_ollama_cpu,
                               FieldValues(runs, "ollama_process_cpu_percent"))
                  /\ IsMaximum(The(ret)[model].max_ollama_ram_gb,
                               FieldValues(runs, "ollama_process_ram_rss_gb"))

\* The three peaks of a model come from three different snapshots of two
\* runs, while another model of the report peaks higher.
C10_Witness ==
    /\ Returned("analyze_resource_usage")
    /\ DOMAIN The(ret) = {"A", "B"}
    /\ Len(call.raw_results["A"]) = 2
    /\ The(ret)["A"] = [max_system_cpu |-> 850, max_ollama_cpu |-> 1200,
                        max_ollama_ram_gb |-> 320]
    /\ The(ret)["B"].max_system_cpu > 850

====
